---- MODULE Spec2Model ----
(***************************************************************************)
(* Model of the structured-document recovery functions                     *)
(* (extract_json_from_response, extract_json_robust, the inline recovery   *)
(* of verify_page) and of the two correction appliers                      *)
(* (apply_claude_corrections.process_page,                                 *)
(* apply_gemini_corrections.process_page).                                 *)
(*                                                                         *)
(* Text is a sequence of characters, each a string.  A Document is a       *)
(* record [t, v, kids]: t is the Python type of the value, v the           *)
(* characters of a string or of a number literal, kids the entries [k, d]  *)
(* of a list (k = <<>>) or of a dict (k = the key), in insertion order.    *)
(***************************************************************************)
EXTENDS Integers, Sequences, FiniteSets, TLC

\* ------------------------------------------------------------------ text

WS == {" ", "\n"}

Digits == {"0", "1", "2", "3", "4", "5", "6", "7", "8", "9"}

\* s[i:i+1] of Python, 1-based: "" when i is out of range
At(s, i) == IF i >= 1 /\ i <= Len(s) THEN s[i] ELSE ""

\* s[a-1:b] of Python, 1-based and inclusive; empty when b < a
Slice(s, a, b) == IF b < a THEN <<>> ELSE SubSeq(s, a, b)

\* s.startswith(p, i-1)
StartsAt(s, p, i) ==
    /\ i >= 1
    /\ i + Len(p) - 1 <= Len(s)
    /\ \A k \in 1..Len(p) : s[i + k - 1] = p[k]

RECURSIVE FindFrom(_, _, _)
\* s.find(p, i-1) + 1, 1-based; 0 when p does not occur at or after i
FindFrom(s, p, i) ==
    IF i + Len(p) - 1 > Len(s) THEN 0
    ELSE IF StartsAt(s, p, i) THEN i
    ELSE FindFrom(s, p, i + 1)

\* p in s
Contains(s, p) == FindFrom(s, p, 1) > 0

RECURSIVE SkipWs(_, _)
\* WHITESPACE.match(s, i).end() of json.decoder, also \s* of the patterns
SkipWs(s, i) == IF At(s, i) \in WS THEN SkipWs(s, i + 1) ELSE i

RECURSIVE lstrip(_)
lstrip(s) == IF s # <<>> /\ Head(s) \in WS THEN lstrip(Tail(s)) ELSE s

RECURSIVE rstrip(_)
rstrip(s) ==
    IF s # <<>> /\ s[Len(s)] \in WS THEN rstrip(SubSeq(s, 1, Len(s) - 1)) ELSE s

strip(s) == rstrip(lstrip(s))

startswith(s, p) == StartsAt(s, p, 1)

endswith(s, p) == Len(s) >= Len(p) /\ StartsAt(s, p, Len(s) - Len(p) + 1)

RECURSIVE ReplaceFrom(_, _, _, _)
\* the non-overlapping left-to-right scan of str.replace, old non-empty
ReplaceFrom(s, old, new, i) ==
    IF i > Len(s) THEN <<>>
    ELSE IF StartsAt(s, old, i) THEN new \o ReplaceFrom(s, old, new, i + Len(old))
    ELSE <<s[i]>> \o ReplaceFrom(s, old, new, i + 1)

RECURSIVE Interleave(_, _)
\* str.replace with an empty old: new goes before every character and at the end
Interleave(s, new) ==
    IF s = <<>> THEN new ELSE new \o <<Head(s)>> \o Interleave(Tail(s), new)

\* s.replace(old, new)
replace(s, old, new) ==
    IF old = <<>> THEN Interleave(s, new) ELSE ReplaceFrom(s, old, new, 1)

\* ------------------------------------------------------------- documents

Str(s) == [t |-> "str", v |-> s, kids |-> <<>>]
Num(s) == [t |-> "num", v |-> s, kids |-> <<>>]
True == [t |-> "true", v |-> <<>>, kids |-> <<>>]
False == [t |-> "false", v |-> <<>>, kids |-> <<>>]
\* Python's None: the value of JSON null and the value the recovery
\* functions return when they give up
None == [t |-> "null", v |-> <<>>, kids |-> <<>>]
List(kids) == [t |-> "list", v |-> <<>>, kids |-> kids]
Dict(kids) == [t |-> "dict", v |-> <<>>, kids |-> kids]

Item(d) == [k |-> <<>>, d |-> d]
Pair(k, d) == [k |-> k, d |-> d]

\* bool(d) of Python: None, False, zero, "", [] and {} are falsy
Truthy(d) ==
    CASE d.t = "null" -> FALSE
      [] d.t = "false" -> FALSE
      [] d.t = "true" -> TRUE
      [] d.t = "num" -> \E i \in 1..Len(d.v) : d.v[i] \in Digits \ {"0"}
      [] d.t = "str" -> d.v # <<>>
      [] OTHER -> d.kids # <<>>

\* pairs[key] = d of a Python dict: an existing key keeps its position
SetKey(pairs, key, d) ==
    IF \E i \in 1..Len(pairs) : pairs[i].k = key
    THEN [i \in 1..Len(pairs) |-> IF pairs[i].k = key THEN Pair(key, d) ELSE pairs[i]]
    ELSE Append(pairs, Pair(key, d))

\* ----------------------------------------------------------- json.dumps

RECURSIVE EscapeStr(_)
\* the escapes json.dumps applies to the characters of the model alphabet
EscapeStr(s) ==
    IF s = <<>> THEN <<>>
    ELSE (CASE Head(s) = "\"" -> <<"\\", "\"">>
            [] Head(s) = "\\" -> <<"\\", "\\">>
            [] Head(s) = "\n" -> <<"\\", "n">>
            [] OTHER -> <<Head(s)>>) \o EscapeStr(Tail(s))

Quote(s) == <<"\"">> \o EscapeStr(s) \o <<"\"">>

RECURSIVE json_dumps(_), DumpKids(_, _, _)
\* json.dumps(d) with the default separators ", " and ": "
json_dumps(d) ==
    CASE d.t = "null" -> <<"n", "u", "l", "l">>
      [] d.t = "true" -> <<"t", "r", "u", "e">>
      [] d.t = "false" -> <<"f", "a", "l", "s", "e">>
      [] d.t = "num" -> d.v
      [] d.t = "str" -> Quote(d.v)
      [] d.t = "list" -> <<"[">> \o DumpKids(d.kids, 1, FALSE) \o <<"]">>
      [] OTHER -> <<"{">> \o DumpKids(d.kids, 1, TRUE) \o <<"}">>

DumpKids(kids, i, keyed) ==
    IF i > Len(kids) THEN <<>>
    ELSE (IF i > 1 THEN <<",", " ">> ELSE <<>>)
         \o (IF keyed THEN Quote(kids[i].k) \o <<":", " ">> ELSE <<>>)
         \o json_dumps(kids[i].d)
         \o DumpKids(kids, i + 1, keyed)

\* ----------------------------------------------------------- json.loads

MsgExpectingValue ==
    <<"E", "x", "p", "e", "c", "t", "i", "n", "g", " ", "v", "a", "l", "u", "e">>
MsgExpectingComma ==
    <<"E", "x", "p", "e", "c", "t", "i", "n", "g", " ", "'", ",", "'", " ",
      "d", "e", "l", "i", "m", "i", "t", "e", "r">>
MsgExpectingColon ==
    <<"E", "x", "p", "e", "c", "t", "i", "n", "g", " ", "'", ":", "'", " ",
      "d", "e", "l", "i", "m", "i", "t", "e", "r">>
MsgExpectingName ==
    <<"E", "x", "p", "e", "c", "t", "i", "n", "g", " ", "p", "r", "o", "p", "e",
      "r", "t", "y", " ", "n", "a", "m", "e", " ", "e", "n", "c", "l", "o", "s",
      "e", "d", " ", "i", "n", " ", "d", "o", "u", "b", "l", "e", " ", "q", "u",
      "o", "t", "e", "s">>
MsgUnterminated ==
    <<"U", "n", "t", "e", "r", "m", "i", "n", "a", "t", "e", "d", " ", "s", "t",
      "r", "i", "n", "g", " ", "s", "t", "a", "r", "t", "i", "n", "g", " ", "a", "t">>
MsgControl ==
    <<"I", "n", "v", "a", "l", "i", "d", " ", "c", "o", "n", "t", "r", "o", "l",
      " ", "c", "h", "a", "r", "a", "c", "t", "e", "r", " ", "a", "t">>
MsgEscape ==
    <<"I", "n", "v", "a", "l", "i", "d", " ", "\\", "e", "s", "c", "a", "p", "e">>
MsgExtraData == <<"E", "x", "t", "r", "a", " ", "d", "a", "t", "a">>

\* a parse result: the value and the position after it, or the message of
\* the JSONDecodeError and the position it reports
Ok(d, i) == [ok |-> TRUE, doc |-> d, end |-> i, err |-> <<>>]
Fail(msg, i) == [ok |-> FALSE, doc |-> None, end |-> i, err |-> msg]

\* str(e) of a JSONDecodeError: the message, then ": line L column C (char P)";
\* the numbers are left out, they hold none of the characters str(e) is
\* searched for
StrOfError(r) ==
    r.err \o <<":", " ", "l", "i", "n", "e", " ", "c", "o", "l", "u", "m", "n",
               " ", "(", "c", "h", "a", "r", ")">>

RECURSIVE scanstring(_, _, _, _)
\* json.decoder.scanstring, strict: i is the position after the opening quote
scanstring(s, i, acc, begin) ==
    IF i > Len(s) THEN Fail(MsgUnterminated, begin)
    ELSE IF s[i] = "\"" THEN Ok(Str(acc), i + 1)
    ELSE IF s[i] = "\n" THEN Fail(MsgControl, i)
    ELSE IF s[i] # "\\" THEN scanstring(s, i + 1, Append(acc, s[i]), begin)
    ELSE IF i + 1 > Len(s) THEN Fail(MsgUnterminated, begin)
    ELSE IF s[i + 1] \in {"\"", "\\", "/"}
         THEN scanstring(s, i + 2, Append(acc, s[i + 1]), begin)
    ELSE IF s[i + 1] = "n" THEN scanstring(s, i + 2, Append(acc, "\n"), begin)
    ELSE Fail(MsgEscape, i)

RECURSIVE SkipDigits(_, _)
SkipDigits(s, i) == IF At(s, i) \in Digits THEN SkipDigits(s, i + 1) ELSE i

\* NUMBER_RE.match(s, i).end() of json.scanner, 0 when there is no match:
\* -?(0|[1-9]\d*) and an optional exponent (the alphabet has no ".")
NumberEnd(s, i) ==
    LET a == IF At(s, i) = "-" THEN i + 1 ELSE i
        b == IF At(s, a) = "0" THEN a + 1
             ELSE IF At(s, a) \in Digits THEN SkipDigits(s, a)
             ELSE 0
        c == IF At(s, b) \in {"e", "E"}
             THEN (IF At(s, b + 1) \in {"+", "-"} THEN b + 2 ELSE b + 1)
             ELSE 0
    IN IF b = 0 THEN 0
       ELSE IF c > 0 /\ At(s, c) \in Digits THEN SkipDigits(s, c)
       ELSE b

RECURSIVE scan_once(_, _), JSONObjectLoop(_, _, _), JSONArrayLoop(_, _, _)

\* json.decoder.JSONObject: i is the position after "{"
JSONObject(s, i) ==
    LET j == SkipWs(s, i)
    IN IF At(s, j) = "}" THEN Ok(Dict(<<>>), j + 1)
       ELSE IF At(s, j) # "\"" THEN Fail(MsgExpectingName, j)
       ELSE JSONObjectLoop(s, j + 1, <<>>)

\* the while loop of JSONObject: i is the position after the key's quote
JSONObjectLoop(s, i, pairs) ==
    LET key == scanstring(s, i, <<>>, i - 1)
        c == SkipWs(s, key.end)
        val == scan_once(s, SkipWs(s, c + 1))
        pairs2 == SetKey(pairs, key.doc.v, val.doc)
        e == SkipWs(s, val.end)
        q == SkipWs(s, e + 1)
    IN IF ~key.ok THEN key
       ELSE IF At(s, c) # ":" THEN Fail(MsgExpectingColon, c)
       ELSE IF ~val.ok THEN val
       ELSE IF At(s, e) = "}" THEN Ok(Dict(pairs2), e + 1)
       ELSE IF At(s, e) # "," THEN Fail(MsgExpectingComma, e)
       ELSE IF At(s, q) # "\"" THEN Fail(MsgExpectingName, q)
       ELSE JSONObjectLoop(s, q + 1, pairs2)

\* json.decoder.JSONArray: i is the position after "["
JSONArray(s, i) ==
    LET j == SkipWs(s, i)
    IN IF At(s, j) = "]" THEN Ok(List(<<>>), j + 1)
       ELSE JSONArrayLoop(s, j, <<>>)

\* the while loop of JSONArray: i is the position of the next element
JSONArrayLoop(s, i, items) ==
    LET val == scan_once(s, i)
        items2 == Append(items, Item(val.doc))
        e == SkipWs(s, val.end)
    IN IF ~val.ok THEN val
       ELSE IF At(s, e) = "]" THEN Ok(List(items2), e + 1)
       ELSE IF At(s, e) # "," THEN Fail(MsgExpectingComma, e)
       ELSE JSONArrayLoop(s, SkipWs(s, e + 1), items2)

\* json.scanner.py_make_scanner._scan_once (NaN and Infinity are outside
\* the alphabet)
scan_once(s, i) ==
    CASE At(s, i) = "\"" -> scanstring(s, i + 1, <<>>, i)
      [] At(s, i) = "{" -> JSONObject(s, i + 1)
      [] At(s, i) = "[" -> JSONArray(s, i + 1)
      [] StartsAt(s, <<"n", "u", "l", "l">>, i) -> Ok(None, i + 4)
      [] StartsAt(s, <<"t", "r", "u", "e">>, i) -> Ok(True, i + 4)
      [] StartsAt(s, <<"f", "a", "l", "s", "e">>, i) -> Ok(False, i + 5)
      [] OTHER -> IF NumberEnd(s, i) > 0
                  THEN Ok(Num(Slice(s, i, NumberEnd(s, i) - 1)), NumberEnd(s, i))
                  ELSE Fail(MsgExpectingValue, i)

\* json.loads(s): JSONDecoder.decode
json_loads(s) ==
    LET r == scan_once(s, SkipWs(s, 1))
        e == SkipWs(s, r.end)
    IN IF ~r.ok THEN r
       ELSE IF e # Len(s) + 1 THEN Fail(MsgExtraData, e)
       ELSE r

\* ------------------------------------------------------ recovery stages

\* the backtick character (a string of the module cannot hold one: the
\* element "tick" of a text stands for it)
Tick == "tick"

Fence == <<Tick, Tick, Tick>>
FenceJson == <<Tick, Tick, Tick, "j", "s", "o", "n">>

\* re.search of the fence pattern with re.DOTALL (three backticks, an
\* optional "json", optional whitespace, a lazy group, three backticks): the
\* leftmost opening fence, the tag and the whitespace after it taken
\* greedily, the group running to the next fence
FenceSearch(raw) ==
    LET p == FindFrom(raw, Fence, 1)
        a == IF StartsAt(raw, <<"j", "s", "o", "n">>, p + 3) THEN p + 7 ELSE p + 3
        b == SkipWs(raw, a)
        q == FindFrom(raw, Fence, b)
    IN IF p = 0 \/ q = 0
       THEN [found |-> FALSE, group |-> <<>>]
       ELSE [found |-> TRUE, group |-> Slice(raw, b, q - 1)]

\* raw[start:end].strip() with start = raw.index(tag) + len(tag) and
\* end = raw.index(fence, start); str.index raises ValueError when the
\* closing fence is missing
FenceIndex(raw, tag) ==
    LET start == FindFrom(raw, tag, 1) + Len(tag)
        end == FindFrom(raw, Fence, start)
    IN IF end = 0
       THEN [raised |-> TRUE, text |-> raw]
       ELSE [raised |-> FALSE, text |-> strip(Slice(raw, start, end - 1))]

\* the fence step of extract_json_from_response
FenceOfResponse(raw) ==
    IF Contains(raw, FenceJson) THEN FenceIndex(raw, FenceJson)
    ELSE IF Contains(raw, Fence) THEN FenceIndex(raw, Fence)
    ELSE [raised |-> FALSE, text |-> raw]

\* the fence step of extract_json_robust and of verify_page
FenceOfRobust(raw) ==
    IF FenceSearch(raw).found THEN strip(FenceSearch(raw).group) ELSE raw

RECURSIVE SubCommaKeep(_, _)
\* re.sub of a comma before optional whitespace and a closing brace or
\* bracket by that whitespace and closer: the comma goes, the whitespace stays
SubCommaKeep(s, i) ==
    LET j == SkipWs(s, i + 1)
    IN IF i > Len(s) THEN <<>>
       ELSE IF s[i] = "," /\ At(s, j) \in {"}", "]"}
            THEN Slice(s, i + 1, j) \o SubCommaKeep(s, j + 1)
       ELSE <<s[i]>> \o SubCommaKeep(s, i + 1)

RECURSIVE SubCommaDrop(_, _, _)
\* re.sub of a comma, optional whitespace and the closer by the closer alone:
\* the comma and the whitespace go
SubCommaDrop(s, i, closer) ==
    LET j == SkipWs(s, i + 1)
    IN IF i > Len(s) THEN <<>>
       ELSE IF s[i] = "," /\ At(s, j) = closer
            THEN <<closer>> \o SubCommaDrop(s, j + 1, closer)
       ELSE <<s[i]>> \o SubCommaDrop(s, i + 1, closer)

\* fixed of extract_json_robust and verify_page
FixedOfRobust(raw) == SubCommaKeep(raw, 1)

\* fixed of extract_json_from_response: braces first, then brackets
FixedOfResponse(raw) == SubCommaDrop(SubCommaDrop(raw, 1, "}"), 1, "]")

RECURSIVE BalancedEnd(_, _, _)
\* the depth scan from the first "{": the first position at which depth is
\* back to zero, 0 when it never is
BalancedEnd(raw, i, depth) ==
    LET d2 == IF raw[i] = "{" THEN depth + 1
              ELSE IF raw[i] = "}" THEN depth - 1
              ELSE depth
    IN IF i > Len(raw) THEN 0
       ELSE IF d2 = 0 THEN i
       ELSE BalancedEnd(raw, i + 1, d2)

\* the balanced-brace stage: the parse of raw[start:i+1] at the first
\* balance point; any failure ends the stage (break)
BraceParse(raw) ==
    LET start == FindFrom(raw, <<"{">>, 1)
        i == BalancedEnd(raw, start, 0)
    IN IF start = 0 \/ i = 0 THEN Fail(<<>>, 0)
       ELSE json_loads(Slice(raw, start, i))

\* 'Expecting' in str(e) and (',' in str(e) or '}' in str(e) or ']' in str(e))
LooksTruncated(r) ==
    /\ Contains(StrOfError(r), <<"E", "x", "p", "e", "c", "t", "i", "n", "g">>)
    /\ \/ Contains(StrOfError(r), <<",">>)
       \/ Contains(StrOfError(r), <<"}">>)
       \/ Contains(StrOfError(r), <<"]">>)

\* the attempt left as it is
CloseAttempt_same(attempt) == attempt

\* one failed pass of the truncation loop: a dangling comma goes, "]}" is
\* appended
CloseAttempt(attempt) ==
    (IF endswith(rstrip(attempt), <<",">>)
     THEN SubSeq(rstrip(attempt), 1, Len(rstrip(attempt)) - 1)
     ELSE attempt) \o <<"]", "}">>

\* range(10) of the truncation loop
TruncationPasses == 10

\* ------------------------------------------------------- recovery inputs

\* the widest list of a generated Document
MaxItems == 2

\* contents of the string leaves: empty, plain, braces, a comma before a
\* brace, a quote, an opening fence, a complete fenced block
RecStrings ==
    { <<>>, <<"a">>, <<"}">>, <<"{">>, <<",", "}">>, <<"\"">>,
      <<Tick, Tick, Tick>>, <<Tick, Tick, Tick, "b", Tick, Tick, Tick>> }

RecLeaves ==
    {Str(s) : s \in RecStrings} \cup {Num(<<"1">>), Num(<<"0">>), None, True, False}

RecLists ==
    { List([i \in DOMAIN f |-> Item(f[i])]) :
        f \in UNION {[1..m -> RecLeaves] : m \in 1..MaxItems} }

RecDicts ==
    {Dict(<<>>)}
    \cup {Dict(<<Pair(<<"a">>, x)>>) : x \in RecLeaves}
    \cup {Dict(<<Pair(<<"a">>, x), Pair(<<"b">>, y)>>) : x \in RecLeaves, y \in RecLeaves}
    \cup {Dict(<<Pair(<<"a">>, List(<<Item(x)>>))>>) : x \in RecLeaves}
    \cup {Dict(<<Pair(<<"a">>, Dict(<<Pair(<<"b">>, x)>>))>>) : x \in RecLeaves}

\* the mappings that hold no backtick
PlainDicts == {d \in RecDicts : ~Contains(json_dumps(d), <<Tick>>)}

RecDocs == RecLeaves \cup {List(<<>>)} \cup RecLists \cup RecDicts

\* text that is no JSON, put after a serialized mapping
Trailers == { <<" ", "x">>, <<"\n", "o", "k", " ", "}">> }

\* Documents whose serialization is cut short
TruncDocs ==
    { Dict(<<Pair(<<"a">>, List(<<Item(Num(<<"1">>)), Item(Num(<<"2">>))>>))>>),
      Dict(<<Pair(<<"a">>, Num(<<"1">>)), Pair(<<"b">>, Str(<<"a">>))>>),
      Dict(<<Pair(<<"a">>, Dict(<<Pair(<<"b">>, Num(<<"1">>))>>))>>) }

\* texts given as they are: empty, blank, the trailing-comma example
RawTexts ==
    { <<>>, <<" ", " ", " ">>, <<" ", "\n">>,
      <<"{", "\"", "a", "\"", ":", " ", "[", "1", ",", " ", "2", ",", "]", ",",
        " ", "\"", "b", "\"", ":", " ", "3", ",", "}">> }

Case(text, d, shape) == [text |-> text, doc |-> d, shape |-> shape]

\* the content of a later fenced block
LaterDoc == Dict(<<Pair(<<"b">>, Num(<<"2">>))>>)

RECURSIVE CommaDump(_, _), CommaKids(_, _, _, _)
\* the serialization of d with a comma and the whitespace ws put before the
\* closer of every container that has entries
CommaDump(d, ws) ==
    IF d.t \notin {"list", "dict"} THEN json_dumps(d)
    ELSE <<IF d.t = "list" THEN "[" ELSE "{">>
         \o CommaKids(d.kids, 1, d.t = "dict", ws)
         \o (IF d.kids = <<>> THEN <<>> ELSE <<",">> \o ws)
         \o <<IF d.t = "list" THEN "]" ELSE "}">>

CommaKids(kids, i, keyed, ws) ==
    IF i > Len(kids) THEN <<>>
    ELSE (IF i > 1 THEN <<",", " ">> ELSE <<>>)
         \o (IF keyed THEN Quote(kids[i].k) \o <<":", " ">> ELSE <<>>)
         \o CommaDump(kids[i].d, ws)
         \o CommaKids(kids, i + 1, keyed, ws)

\* the inputs of a recovery call, each with the Document it was made from
\* and the way it was made
RecoverInputs ==
    {Case(json_dumps(d), d, "serialized") : d \in RecDocs}
    \cup {Case(json_dumps(d) \o g, d, "trailing") : d \in PlainDicts, g \in Trailers}
    \cup {Case(<<"o", "k", " ">> \o FenceJson \o <<"\n">> \o json_dumps(d) \o <<"\n">>
                 \o Fence \o <<" ", "x">>, d, "fenced") : d \in RecDicts}
    \cup {Case(Fence \o json_dumps(d) \o Fence, d, "fenced") : d \in RecDicts}
    \cup {Case(FenceJson \o <<"\n">> \o json_dumps(d), d, "unclosed") : d \in RecDicts}
    \cup {Case(Fence \o <<" ">> \o json_dumps(d), d, "unclosed") : d \in RecDicts}
    \cup UNION { {Case(SubSeq(json_dumps(d), 1, n), d, "truncated") :
                     n \in 1..(Len(json_dumps(d)) - 1)} : d \in TruncDocs }
    \cup {Case(<<"o", "k", "\n">> \o Fence \o <<"\n">> \o json_dumps(d) \o <<"\n">>
                 \o Fence \o <<" ">> \o FenceJson \o <<"\n">> \o json_dumps(LaterDoc)
                 \o <<"\n">> \o Fence, d, "fenced2") : d \in PlainDicts}
    \cup {Case(CommaDump(d, ws), d, "commas") :
            d \in {x \in RecDicts \cup RecLists : x.kids # <<>>},
            ws \in {<<>>, <<" ">>}}
    \cup {Case(t, None, "raw") : t \in RawTexts}

RecoverFns == {"extract_json_from_response", "extract_json_robust", "verify_page"}

\* ------------------------------------------------------------------ state

VARIABLES
    rfn,       \* the recovery function called
    rin,       \* its input: the text, and what the text was made from
    rpc,       \* the stage the call is at
    rraw,      \* the local raw (text_to_parse of verify_page)
    rattempt,  \* the local attempt of the truncation loop
    riter,     \* passes of the truncation loop made so far
    rret,      \* the value returned (parsed_qa of verify_page)
    rout,      \* "running", "returned" or "raised"
    rstage     \* the stage that produced the returned value

rvars == <<rfn, rin, rpc, rraw, rattempt, riter, rret, rout, rstage>>

VARIABLES
    applier,   \* "claude" or "gemini": whose process_page runs
    ocr,       \* parsed_json of the page record, as stored
    qa,        \* the QA payload of the page
    heap,      \* the value of each object process_page holds
    pj,        \* the object the local parsed_json (result) is bound to
    mpc,       \* the place process_page is at
    idx,       \* the next issue of the loop
    mlog,      \* corrections_applied (corrections): the change records
    mflag,     \* had_corrections (modified)
    mbranch,   \* the branch process_page took
    mmethod,   \* "method" of the Gemini result
    out,       \* the Document handed to save_json
    mprev      \* the working Document and the length of the change log
               \* before the last pass of the issue loop

mvars == <<applier, ocr, qa, heap, pj, mpc, idx, mlog, mflag, mbranch, mmethod,
           out, mprev>>

VARIABLES
    pass,      \* the orchestrator that runs
    input,     \* for each page, whether its input can be acquired
    store,     \* the page records of the output directory of the pass
    store0,    \* the page records before the pass
    wpc,       \* for each page, where its pipeline is
    wattempt,  \* for each page, the attempt index of the model call
    wres,      \* for each page, the local result, then what the call gave
    wtext,     \* for each page, the last text the model call returned
    invoked,   \* the pages whose pipeline was submitted
    opc,       \* where main is
    results,   \* the results main has collected, in collection order
    summary,   \* the aggregate written at the end of the run
    recovered, \* what each recovery function gives on each text of the run:
               \* the functions are pure, a pipeline looks their value up
    order,     \* the pages in the order main appended their results
    wopen,     \* for each page, the key of the page record its pipeline has
               \* open for writing, 0 when it has none open
    wwait      \* for each page, the seconds its pipeline slept before the
               \* attempt it is in, 0 when it did not sleep

ovars == <<pass, input, store, store0, wpc, wattempt, wres, wtext, invoked, opc,
           results, summary, recovered, order, wopen,
           wwait>>

vars == <<rvars, mvars, ovars>>

\* no recovery call is in progress
RecoverIdle ==
    /\ rfn = "none"
    /\ rin = Case(<<>>, None, "raw")
    /\ rpc = "idle"
    /\ rraw = <<>>
    /\ rattempt = <<>>
    /\ riter = 0
    /\ rret = None
    /\ rout = "idle"
    /\ rstage = "none"

\* no correction pass is in progress
MergeIdle ==
    /\ applier = "none"
    /\ ocr = None
    /\ qa = [exists |-> FALSE, cj |-> [has |-> FALSE, doc |-> None], issues |-> <<>>]
    /\ heap = [r \in {"ocr", "copy", "qa", "lit"} |-> None]
    /\ pj = "ocr"
    /\ mpc = "idle"
    /\ idx = 1
    /\ mlog = <<>>
    /\ mflag = FALSE
    /\ mbranch = "none"
    /\ mmethod = "none"
    /\ out = [written |-> FALSE, doc |-> None]
    /\ mprev = [doc |-> None, len |-> 0]

\* the widest run
NumPages == 2

Pages == 1..NumPages

\* no page record at the place of a page
NoRecord == [exists |-> FALSE, status |-> "none", parsed |-> None, raw |-> <<>>,
             err |-> FALSE]

\* the local result before its first assignment
Unset == [kind |-> "unset", page |-> 0, status |-> "none", parsed |-> None,
          raw |-> <<>>, err |-> FALSE]

NoSummary == [written |-> FALSE, total |-> 0, success |-> 0, failed |-> 0,
              json_fail |-> 0, failed_pages |-> <<>>, results |-> <<>>]

\* no orchestrator runs
RunIdle ==
    /\ pass = "none"
    /\ input = [i \in Pages |-> TRUE]
    /\ store = [i \in Pages |-> NoRecord]
    /\ store0 = [i \in Pages |-> NoRecord]
    /\ wpc = [i \in Pages |-> "idle"]
    /\ wattempt = [i \in Pages |-> 0]
    /\ wres = [i \in Pages |-> Unset]
    /\ wtext = [i \in Pages |-> [has |-> FALSE, text |-> <<>>]]
    /\ invoked = {}
    /\ opc = "idle"
    /\ results = <<>>
    /\ summary = NoSummary
    /\ recovered = <<>>
    /\ order = <<>>
    /\ wopen = [i \in Pages |-> 0]
    /\ wwait = [i \in Pages |-> 0]

\* --------------------------------------------------------------- recovery

RecoverInit ==
    /\ rfn \in RecoverFns
    /\ rin \in RecoverInputs
    /\ rpc = "call"
    /\ rraw = rin.text
    /\ rattempt = <<>>
    /\ riter = 0
    /\ rret = None
    /\ rout = "running"
    /\ rstage = "none"
    /\ MergeIdle
    /\ RunIdle

\* return v from the stage st
Return(v, st) ==
    /\ rpc' = "done"
    /\ rret' = v
    /\ rout' = "returned"
    /\ rstage' = st

\* move to the stage st
Goto(st) ==
    /\ rpc' = st
    /\ UNCHANGED <<rret, rout, rstage>>

\* no text is taken for empty
not_raw_never(raw) == FALSE

\* "not raw": the truth value of a str
not_raw(raw) == raw = <<>>

\* "if not raw: return None" and the fence step.  verify_page has no empty
\* test: its empty content goes to the parse.
EnterRecover ==
    /\ rpc = "call"
    /\ UNCHANGED <<rfn, rin, rattempt, riter, mvars, ovars>>
    /\ IF rfn # "verify_page" /\ not_raw(rraw)
       THEN Return(None, "empty") /\ UNCHANGED rraw
       ELSE IF rfn = "extract_json_from_response"
       THEN IF FenceOfResponse(rraw).raised
            THEN /\ rpc' = "done"
                 /\ rout' = "raised"
                 /\ UNCHANGED <<rraw, rret, rstage>>
            ELSE rraw' = FenceOfResponse(rraw).text /\ Goto("direct")
       ELSE rraw' = FenceOfRobust(rraw) /\ Goto("direct")

\* json.loads(raw); in extract_json_from_response the handler strips raw
\* and gives up unless it starts with "{" or "["
DirectParse ==
    /\ rpc = "direct"
    /\ UNCHANGED <<rfn, rin, rattempt, riter, mvars, ovars>>
    /\ IF json_loads(rraw).ok
       THEN Return(json_loads(rraw).doc, "direct") /\ UNCHANGED rraw
       ELSE IF rfn = "extract_json_from_response"
       THEN /\ rraw' = strip(rraw)
            /\ IF startswith(strip(rraw), <<"{">>) \/ startswith(strip(rraw), <<"[">>)
               THEN Goto("comma")
               ELSE Return(None, "none")
       ELSE Goto("comma") /\ UNCHANGED rraw

\* the trailing-comma repair and its parse
CommaRepair ==
    /\ rpc = "comma"
    /\ UNCHANGED <<rfn, rin, rraw, rattempt, riter, mvars, ovars>>
    /\ IF rfn = "extract_json_from_response"
       THEN IF json_loads(FixedOfResponse(rraw)).ok
            THEN Return(json_loads(FixedOfResponse(rraw)).doc, "comma")
            ELSE Return(None, "none")
       ELSE IF json_loads(FixedOfRobust(rraw)).ok
            THEN Return(json_loads(FixedOfRobust(rraw)).doc, "comma")
            ELSE Goto("brace")

\* the balanced-brace stage; extract_json_robust then enters the truncation
\* loop when the stripped text starts with "{"
BraceExtract ==
    /\ rpc = "brace"
    /\ UNCHANGED <<rfn, rin, rraw, riter, mvars, ovars>>
    /\ IF BraceParse(rraw).ok
       THEN Return(BraceParse(rraw).doc, "brace") /\ UNCHANGED rattempt
       ELSE IF rfn = "extract_json_robust" /\ startswith(strip(rraw), <<"{">>)
       THEN rattempt' = strip(rraw) /\ Goto("trunc")
       ELSE Return(None, "none") /\ UNCHANGED rattempt

\* one pass of "for _ in range(10)": parse attempt; on an error that looks
\* like a truncation close it and go on, on any other error break
TruncPass ==
    /\ rpc = "trunc"
    /\ riter < TruncationPasses
    /\ UNCHANGED <<rfn, rin, rraw, mvars, ovars>>
    /\ riter' = riter + 1
    /\ IF json_loads(rattempt).ok
       THEN Return(json_loads(rattempt).doc, "trunc") /\ UNCHANGED rattempt
       ELSE IF LooksTruncated(json_loads(rattempt))
       THEN /\ rattempt' = CloseAttempt(rattempt)
            /\ IF riter + 1 = TruncationPasses
               THEN Return(None, "none")
               ELSE Goto("trunc")
       ELSE Return(None, "none") /\ UNCHANGED rattempt

RecoverNext ==
    \/ EnterRecover
    \/ DirectParse
    \/ CommaRepair
    \/ BraceExtract
    \/ TruncPass

SpecRecover == RecoverInit /\ [][RecoverNext]_vars

\* ------------------------------------------- recovery, as one evaluation

\* what a call gives back: a Document (None for a failure) or an exception
Returned(d) == [raised |-> FALSE, doc |-> d]
Raised == [raised |-> TRUE, doc |-> None]

RECURSIVE TruncLoop(_, _)
\* the truncation loop of extract_json_robust from its pass number n on
TruncLoop(attempt, n) ==
    IF n > TruncationPasses THEN None
    ELSE IF json_loads(attempt).ok THEN json_loads(attempt).doc
    ELSE IF LooksTruncated(json_loads(attempt))
    THEN TruncLoop(CloseAttempt(attempt), n + 1)
    ELSE None

\* extract_json_robust(raw)
extract_json_robust(raw) ==
    LET text == FenceOfRobust(raw)
    IN IF not_raw(raw) THEN Returned(None)
       ELSE IF json_loads(text).ok THEN Returned(json_loads(text).doc)
       ELSE IF json_loads(FixedOfRobust(text)).ok
       THEN Returned(json_loads(FixedOfRobust(text)).doc)
       ELSE IF BraceParse(text).ok THEN Returned(BraceParse(text).doc)
       ELSE IF startswith(strip(text), <<"{">>)
       THEN Returned(TruncLoop(strip(text), 1))
       ELSE Returned(None)

\* extract_json_from_response(raw)
extract_json_from_response(raw) ==
    LET f == FenceOfResponse(raw)
        text == strip(f.text)
    IN IF not_raw(raw) THEN Returned(None)
       ELSE IF f.raised THEN Raised
       ELSE IF json_loads(f.text).ok THEN Returned(json_loads(f.text).doc)
       ELSE IF (startswith(text, <<"{">>) \/ startswith(text, <<"[">>))
               /\ json_loads(FixedOfResponse(text)).ok
       THEN Returned(json_loads(FixedOfResponse(text)).doc)
       ELSE Returned(None)

\* parsed_qa of verify_page for the content the model call gave
verify_page_parse(content) ==
    LET text == FenceOfRobust(content)
    IN IF json_loads(text).ok THEN Returned(json_loads(text).doc)
       ELSE IF json_loads(FixedOfRobust(text)).ok
       THEN Returned(json_loads(FixedOfRobust(text)).doc)
       ELSE IF BraceParse(text).ok THEN Returned(BraceParse(text).doc)
       ELSE Returned(None)

\* ------------------------------------------------------ correction merge

\* 1 when some entry counted, whatever the number of entries that did
SumN_any(rs) == IF \E i \in 1..Len(rs) : rs[i].n > 0 THEN 1 ELSE 0

RECURSIVE SumN(_)
SumN(rs) == IF rs = <<>> THEN 0 ELSE Head(rs).n + SumN(Tail(rs))

\* the entries of a container with the Documents of the walk results put in
WithDocs(obj, sub) ==
    [obj EXCEPT !.kids = [i \in 1..Len(obj.kids) |->
                            [k |-> obj.kids[i].k, d |-> sub[i].doc]]]

RECURSIVE apply_text_replacement_recursive(_, _, _)
\* apply_claude_corrections.apply_text_replacement_recursive: obj after the
\* walk and the count returned.  An obj that is neither dict nor list is
\* left alone.
apply_text_replacement_recursive(obj, original_text, corrected_text) ==
    LET sub == [i \in 1..Len(obj.kids) |->
                  LET x == obj.kids[i].d
                  IN IF x.t = "str"
                     THEN IF Contains(x.v, original_text)
                          THEN [doc |-> Str(replace(x.v, original_text, corrected_text)),
                                n |-> 1]
                          ELSE [doc |-> x, n |-> 0]
                     ELSE IF x.t \in {"dict", "list"}
                     THEN apply_text_replacement_recursive(x, original_text, corrected_text)
                     ELSE [doc |-> x, n |-> 0]]
    IN IF obj.t \in {"dict", "list"}
       THEN [doc |-> WithDocs(obj, sub), n |-> SumN(sub)]
       ELSE [doc |-> obj, n |-> 0]

RECURSIVE replace_in_obj_count_stored(_, _, _)
\* the walk with the count a recursive call returns assigned to the entry
\* it was called on
replace_in_obj_count_stored(obj, original, corrected) ==
    LET sub == [i \in 1..Len(obj.kids) |->
                  LET x == obj.kids[i].d
                      r == replace_in_obj_count_stored(x, original, corrected)
                  IN IF x.t = "str" /\ Contains(x.v, original)
                     THEN [doc |-> Str(replace(x.v, original, corrected)), n |-> 1]
                     ELSE IF x.t \in {"dict", "list"}
                     THEN [doc |-> Num(<<IF r.n = 0 THEN "0" ELSE "1">>), n |-> r.n]
                     ELSE [doc |-> x, n |-> 0]]
    IN IF obj.t \in {"dict", "list"}
       THEN [doc |-> WithDocs(obj, sub), n |-> SumN(sub)]
       ELSE [doc |-> obj, n |-> 0]

RECURSIVE replace_in_obj(_, _, _)
\* apply_gemini_corrections._replace_in_obj: obj after the walk and the
\* count returned
replace_in_obj(obj, original, corrected) ==
    LET sub == [i \in 1..Len(obj.kids) |->
                  LET x == obj.kids[i].d
                  IN IF x.t = "str" /\ Contains(x.v, original)
                     THEN [doc |-> Str(replace(x.v, original, corrected)), n |-> 1]
                     ELSE IF x.t \in {"dict", "list"}
                     THEN replace_in_obj(x, original, corrected)
                     ELSE [doc |-> x, n |-> 0]]
    IN IF obj.t \in {"dict", "list"}
       THEN [doc |-> WithDocs(obj, sub), n |-> SumN(sub)]
       ELSE [doc |-> obj, n |-> 0]

\* a field of a JSON object that may be missing
Absent == [has |-> FALSE, doc |-> None]
Field(d) == [has |-> TRUE, doc |-> d]

\* obj.get(key, default)
Get(field, default) == IF field.has THEN field.doc ELSE default

\* the test without its comparison of the two texts
ClaudeApplies_no_equality(issue) ==
    /\ Truthy(Get(issue.o, Str(<<>>)))
    /\ Truthy(Get(issue.c, Str(<<>>)))

\* the test of the Claude issue loop, with the defaults of its two get calls
ClaudeApplies(issue) ==
    /\ Truthy(Get(issue.o, Str(<<>>)))
    /\ Truthy(Get(issue.c, Str(<<>>)))
    /\ Get(issue.o, Str(<<>>)) # Get(issue.c, Str(<<>>))

\* the test without its comparison of the two texts
GeminiSkips_no_equality(issue) ==
    \/ ~Truthy(Get(issue.o, None))
    \/ ~Truthy(Get(issue.c, None))

\* the test before "continue" in apply_text_corrections
GeminiSkips(issue) ==
    \/ ~Truthy(Get(issue.o, None))
    \/ ~Truthy(Get(issue.c, None))
    \/ Get(issue.o, None) = Get(issue.c, None)

\* corrected_json is not None and corrected_json != "null"
ClaudeUsesReplacement(cj) ==
    /\ Get(cj, None) # None
    /\ Get(cj, None) # Str(<<"n", "u", "l", "l">>)

\* if corrected_json:
GeminiUsesReplacement(cj) == Truthy(Get(cj, None))

\* no copy is made: the name is bound to the object it was given
deepcopy_alias(r) == r

\* copy.deepcopy(x): the object that holds the copy
deepcopy(r) == "copy"

FullRecord == [kind |-> "full", o |-> <<>>, c |-> <<>>, n |-> 0]
FragmentRecord(o, c, n) == [kind |-> "fragment", o |-> o, c |-> c, n |-> n]

\* "if count > 0:" of the Claude issue loop: corrections_applied afterwards
ClaudeRecord(log, original_text, corrected_text, count) ==
    IF count > 0
    THEN Append(log, FragmentRecord(original_text, corrected_text, count))
    ELSE log

\* the record appended whatever the count
GeminiRecord_always(log, original, corrected, count) ==
    Append(log, FragmentRecord(original, corrected, count))

\* "if count > 0:" of apply_text_corrections: corrections_applied afterwards
GeminiRecord(log, original, corrected, count) ==
    IF count > 0
    THEN Append(log, FragmentRecord(original, corrected, count))
    ELSE log

\* the corrections of the Gemini result in the corrected_json branch: the
\* issues with both texts
IssueRecords(issues) ==
    SelectSeq([i \in 1..Len(issues) |->
                 [kind |-> "issue", o |-> Get(issues[i].o, Str(<<>>)).v,
                  c |-> Get(issues[i].c, Str(<<>>)).v, n |-> 0,
                  keep |-> Truthy(Get(issues[i].o, None)) /\ Truthy(Get(issues[i].c, None))]],
              LAMBDA r : r.keep)

RECURSIVE ClaudeIssueLoop(_, _, _, _)
\* the issue loop of apply_claude_corrections.process_page from issue i on:
\* parsed_json and corrections_applied when the loop ends
ClaudeIssueLoop(parsed_json, corrections_applied, issues, i) ==
    IF i > Len(issues)
    THEN [doc |-> parsed_json, log |-> corrections_applied]
    ELSE LET issue == issues[i]
             original_text == Get(issue.o, Str(<<>>)).v
             corrected_text == Get(issue.c, Str(<<>>)).v
             r == apply_text_replacement_recursive(parsed_json, original_text,
                                                   corrected_text)
         IN IF ClaudeApplies(issue)
            THEN ClaudeIssueLoop(r.doc,
                                 ClaudeRecord(corrections_applied, original_text,
                                              corrected_text, r.n),
                                 issues, i + 1)
            ELSE ClaudeIssueLoop(parsed_json, corrections_applied, issues, i + 1)

RECURSIVE apply_text_corrections(_, _, _, _)
\* apply_gemini_corrections.apply_text_corrections from issue i on: result
\* and corrections_applied as returned
apply_text_corrections(result, corrections_applied, issues, i) ==
    IF i > Len(issues)
    THEN [doc |-> result, log |-> corrections_applied]
    ELSE LET issue == issues[i]
             original == Get(issue.o, None).v
             corrected == Get(issue.c, None).v
             r == replace_in_obj(result, original, corrected)
         IN IF GeminiSkips(issue)
            THEN apply_text_corrections(result, corrections_applied, issues, i + 1)
            ELSE apply_text_corrections(r.doc,
                                        GeminiRecord(corrections_applied, original,
                                                     corrected, r.n),
                                        issues, i + 1)

\* --------------------------------------------------------- merge inputs

\* the longest issues list
MaxIssues == 2

A1 == <<"a">>
B1 == <<"b">>
AB == <<"a", "b">>

Nested(s, s2) ==
    Dict(<<Pair(<<"t">>, Str(s)),
           Pair(<<"l">>, List(<<Item(Str(s2)), Item(True),
                                Item(Dict(<<Pair(<<"u">>, Str(AB))>>))>>))>>)

\* the base Documents: a string, mappings with one string leaf, with a
\* number beside it, with leaves at three depths, and a list
MergeDocs ==
    {Str(A1), Dict(<<>>)}
    \cup {Dict(<<Pair(<<"t">>, Str(s))>>) :
            s \in {A1, B1, AB, <<"a", "a">>, <<"a", "a", "a">>}}
    \cup {Dict(<<Pair(<<"t">>, Str(A1)), Pair(<<"n">>, Num(<<"1">>))>>)}
    \cup {Nested(s, s2) : s \in {A1, B1}, s2 \in {A1, B1}}
    \cup {List(<<Item(Str(A1)), Item(Str(AB))>>)}

Issue(o, c) == [o |-> o, c |-> c]

\* the fragment directives: plain, compounding, overlapping, identical,
\* empty, missing and null texts
Directives ==
    { Issue(Field(Str(A1)), Field(Str(B1))),
      Issue(Field(Str(B1)), Field(Str(A1))),
      Issue(Field(Str(A1)), Field(Str(AB))),
      Issue(Field(Str(<<"a", "a">>)), Field(Str(B1))),
      Issue(Field(Str(A1)), Field(Str(A1))),
      Issue(Field(Str(<<>>)), Field(Str(A1))),
      Issue(Field(Str(A1)), Field(Str(<<>>))),
      Issue(Absent, Field(Str(A1))),
      Issue(Field(Str(A1)), Field(None)) }

IssueLists == UNION {[1..n -> Directives] : n \in 0..MaxIssues}

\* corrected_json of the payload: missing, null, the string "null", an
\* empty mapping, a replacement Document
Replacements ==
    { Absent, Field(None), Field(Str(<<"n", "u", "l", "l">>)), Field(Dict(<<>>)),
      Field(Dict(<<Pair(<<"t">>, Str(B1))>>)) }

\* the QA payloads: none (no QA file for Claude, parsed_qa null for
\* Gemini), or one with corrected_json and issues
QaPayloads ==
    {[exists |-> FALSE, cj |-> Absent, issues |-> <<>>]}
    \cup {[exists |-> TRUE, cj |-> cj, issues |-> is] :
            cj \in Replacements, is \in IssueLists}

\* ----------------------------------------------------------- process_page

MergeInit ==
    /\ applier \in {"claude", "gemini"}
    /\ ocr \in MergeDocs \cup {None}
    /\ qa \in QaPayloads
    /\ heap = [r \in {"ocr", "copy", "qa", "lit"} |->
                 CASE r = "ocr" -> ocr
                   [] r = "qa" -> qa.cj.doc
                   [] r = "lit" -> Dict(<<>>)
                   [] OTHER -> None]
    /\ pj = "ocr"
    /\ mpc = "load"
    /\ idx = 1
    /\ mlog = <<>>
    /\ mflag = FALSE
    /\ mbranch = "none"
    /\ mmethod = "none"
    /\ out = [written |-> FALSE, doc |-> None]
    /\ mprev = [doc |-> None, len |-> 0]
    /\ RecoverIdle
    /\ RunIdle

\* apply_claude_corrections.process_page up to the branch on corrected_json
ClaudeLoad ==
    /\ applier = "claude"
    /\ mpc = "load"
    /\ heap' = [heap EXCEPT ![deepcopy("ocr")] = heap["ocr"]]
    /\ UNCHANGED <<rvars, ovars, applier, ocr, qa, idx, mmethod, out, mprev>>
    /\ IF ~qa.exists
       THEN /\ pj' = deepcopy("ocr")
            /\ mpc' = "save"
            /\ mbranch' = "no_qa_file"
            /\ UNCHANGED <<mlog, mflag>>
       ELSE IF ClaudeUsesReplacement(qa.cj)
       THEN /\ pj' = "qa"
            /\ mpc' = "save"
            /\ mbranch' = "corrected_json"
            /\ mflag' = TRUE
            /\ mlog' = Append(mlog, FullRecord)
       ELSE /\ pj' = deepcopy("ocr")
            /\ mpc' = "issues"
            /\ mbranch' = "issues"
            /\ UNCHANGED <<mlog, mflag>>

\* one pass of the issue loop of apply_claude_corrections.process_page
ClaudeApplyIssue ==
    /\ applier = "claude"
    /\ mpc = "issues"
    /\ idx <= Len(qa.issues)
    /\ idx' = idx + 1
    /\ mprev' = [doc |-> heap[pj], len |-> Len(mlog)]
    /\ UNCHANGED <<rvars, ovars, applier, ocr, qa, pj, mpc, mbranch, mmethod, out>>
    /\ LET issue == qa.issues[idx]
           original_text == Get(issue.o, Str(<<>>)).v
           corrected_text == Get(issue.c, Str(<<>>)).v
           r == apply_text_replacement_recursive(heap[pj], original_text, corrected_text)
       IN IF ClaudeApplies(issue)
          THEN /\ heap' = [heap EXCEPT ![pj] = r.doc]
               /\ mflag' = (mflag \/ r.n > 0)
               /\ mlog' = ClaudeRecord(mlog, original_text, corrected_text, r.n)
          ELSE UNCHANGED <<heap, mflag, mlog>>

\* save_json(out_path, parsed_json) of apply_claude_corrections.process_page
ClaudeSave ==
    /\ applier = "claude"
    /\ mpc = "save" \/ (mpc = "issues" /\ idx > Len(qa.issues))
    /\ mpc' = "done"
    /\ out' = [written |-> TRUE, doc |-> heap[pj]]
    /\ UNCHANGED <<rvars, ovars, applier, ocr, qa, heap, pj, idx, mlog, mflag, mbranch,
                   mmethod, mprev>>

\* apply_gemini_corrections.process_page up to its branch; the fragment
\* branch enters apply_text_corrections, which copies parsed_json
GeminiLoad ==
    /\ applier = "gemini"
    /\ mpc = "load"
    /\ UNCHANGED <<rvars, ovars, applier, ocr, qa, idx, out, mprev>>
    /\ IF heap["ocr"] = None
       THEN /\ pj' = "lit"
            /\ mpc' = "save"
            /\ mbranch' = "no_parsed_json"
            /\ mmethod' = "no_parsed_json"
            /\ UNCHANGED <<heap, mlog, mflag>>
       ELSE IF ~qa.exists
       THEN /\ mpc' = "save"
            /\ mbranch' = "qa_parse_failed"
            /\ mmethod' = "qa_parse_failed"
            /\ UNCHANGED <<heap, pj, mlog, mflag>>
       ELSE IF GeminiUsesReplacement(qa.cj)
       THEN /\ pj' = "qa"
            /\ mpc' = "save"
            /\ mbranch' = "corrected_json"
            /\ mmethod' = "corrected_json"
            /\ mflag' = TRUE
            /\ mlog' = IssueRecords(qa.issues)
            /\ UNCHANGED heap
       ELSE IF qa.issues # <<>>
       THEN /\ heap' = [heap EXCEPT ![deepcopy("ocr")] = heap["ocr"]]
            /\ pj' = deepcopy("ocr")
            /\ mpc' = "issues"
            /\ mbranch' = "issues"
            /\ UNCHANGED <<mmethod, mlog, mflag>>
       ELSE /\ mpc' = "save"
            /\ mbranch' = "no_corrections_needed"
            /\ mmethod' = "no_corrections_needed"
            /\ UNCHANGED <<heap, pj, mlog, mflag>>

\* one pass of the issue loop of apply_text_corrections
GeminiApplyIssue ==
    /\ applier = "gemini"
    /\ mpc = "issues"
    /\ idx <= Len(qa.issues)
    /\ idx' = idx + 1
    /\ mprev' = [doc |-> heap[pj], len |-> Len(mlog)]
    /\ UNCHANGED <<rvars, ovars, applier, ocr, qa, pj, mpc, mflag, mbranch, mmethod, out>>
    /\ LET issue == qa.issues[idx]
           original == Get(issue.o, None).v
           corrected == Get(issue.c, None).v
           r == replace_in_obj(heap[pj], original, corrected)
       IN IF GeminiSkips(issue)
          THEN UNCHANGED <<heap, mlog>>
          ELSE /\ heap' = [heap EXCEPT ![pj] = r.doc]
               /\ mlog' = GeminiRecord(mlog, original, corrected, r.n)

\* save_json(output_path, ...) of apply_gemini_corrections.process_page and,
\* after apply_text_corrections, modified and method
GeminiSave ==
    /\ applier = "gemini"
    /\ mpc = "save" \/ (mpc = "issues" /\ idx > Len(qa.issues))
    /\ mpc' = "done"
    /\ out' = [written |-> TRUE, doc |-> heap[pj]]
    /\ IF mbranch = "issues"
       THEN /\ mflag' = (Len(mlog) > 0)
            /\ mmethod' = IF Len(mlog) > 0 THEN "text_replacement"
                          ELSE "no_applicable_corrections"
       ELSE UNCHANGED <<mflag, mmethod>>
    /\ UNCHANGED <<rvars, ovars, applier, ocr, qa, heap, pj, idx, mlog, mbranch, mprev>>

MergeNext ==
    \/ ClaudeLoad
    \/ ClaudeApplyIssue
    \/ ClaudeSave
    \/ GeminiLoad
    \/ GeminiApplyIssue
    \/ GeminiSave

SpecMerge == MergeInit /\ [][MergeNext]_vars

\* ------------------------------------------------------- orchestrators

\* max_workers of the pools of fixed size (MAX_WORKERS of extract.py, the
\* literals of gemini_qa.py and of the appliers), fewer than the pages
MaxWorkers == 1

Passes == {"extract", "retry", "qa", "gemini", "claude"}

TextDoc == json_dumps(Dict(<<Pair(<<"a">>, Num(<<"1">>))>>))
TextNoJson == <<"x">>
TextUnclosed == FenceJson \o <<"\n">> \o TextDoc
TextEmptyDoc == <<"{", "}">>
TextZero == <<"0">>

\* the texts a model call returns
RunTexts == {TextDoc, TextNoJson, TextUnclosed, TextEmptyDoc, TextZero}

\* what each recovery function gives on each text of a run (the empty
\* raw_response of a failed call included)
ParsedBy ==
    [fn \in RecoverFns |->
       [t \in RunTexts \cup {<<>>} |->
          CASE fn = "extract_json_from_response" -> extract_json_from_response(t)
            [] fn = "extract_json_robust" -> extract_json_robust(t)
            [] OTHER -> verify_page_parse(t)]]

\* what one attempt of the model call can meet: a 429 response, an
\* exception, or a response with a text
Outcomes ==
    {[kind |-> "rate", text |-> <<>>], [kind |-> "error", text |-> <<>>]}
    \cup {[kind |-> "text", text |-> t] : t \in RunTexts}

Rec(status, parsed, raw, err) ==
    [exists |-> TRUE, status |-> status, parsed |-> parsed, raw |-> raw, err |-> err]

Res(i, status, parsed, raw, err) ==
    [kind |-> "result", page |-> i, status |-> status, parsed |-> parsed,
     raw |-> raw, err |-> err]

\* a call that ended with an exception
RaisedRes(i) == [Unset EXCEPT !.kind = "raised", !.page = i]

\* a call that returned None
NoneRes(i) == [Unset EXCEPT !.kind = "none", !.page = i]

\* the record of a result
RecOf(r) == Rec(r.status, r.parsed, r.raw, r.err)

\* the page records a retry pass can find: none, a success, a parse
\* failure, a failed call
InitialRecords ==
    { NoRecord,
      Rec("success", Dict(<<Pair(<<"a">>, Num(<<"1">>))>>), TextDoc, FALSE),
      Rec("json_parse_failed", None, TextNoJson, FALSE),
      Rec("failed", None, <<>>, TRUE) }

RunInit ==
    /\ pass \in Passes
    /\ input \in [Pages -> BOOLEAN]
    /\ store \in (IF pass = "retry" THEN [Pages -> InitialRecords]
                  ELSE {[i \in Pages |-> NoRecord]})
    /\ store0 = store
    /\ wpc = [i \in Pages |-> "idle"]
    /\ wattempt = [i \in Pages |-> 0]
    /\ wres = [i \in Pages |-> Unset]
    /\ wtext = [i \in Pages |-> [has |-> FALSE, text |-> <<>>]]
    /\ invoked = {}
    /\ opc = "start"
    /\ results = <<>>
    /\ summary = NoSummary
    /\ recovered = ParsedBy
    /\ order = <<>>
    /\ wopen = [i \in Pages |-> 0]
    /\ wwait = [i \in Pages |-> 0]
    /\ RecoverIdle
    /\ MergeIdle

\* max_workers of the pool of the pass
PoolSize == IF pass = "retry" THEN Cardinality(invoked) ELSE MaxWorkers

\* every pipeline names the same record
KeyOf_shared(i) == 1

\* the key of the page record of page i: f"page_{page_num:03d}.json"
KeyOf(i) == i

\* the pipeline of page i ends without writing: what it gives is in wres
End(i, r) ==
    /\ wpc' = [wpc EXCEPT ![i] = "done"]
    /\ wres' = [wres EXCEPT ![i] = r]
    /\ wwait' = [wwait EXCEPT ![i] = 0]
    /\ UNCHANGED <<store, wopen>>

\* the pipeline of page i opens its page record for writing and dumps the
\* result r into it
Write(i, r) ==
    /\ wpc' = [wpc EXCEPT ![i] = "writing"]
    /\ wres' = [wres EXCEPT ![i] = r]
    /\ store' = [store EXCEPT ![KeyOf(i)] = RecOf(r)]
    /\ wopen' = [wopen EXCEPT ![i] = KeyOf(i)]
    /\ wwait' = [wwait EXCEPT ![i] = 0]

\* time.sleep(...) after a 429 response to the attempt of index attempt
RateWait(p, attempt) ==
    IF p = "extract" THEN 2 ^ (attempt + 1) + 5 ELSE 5 * (attempt + 1)

\* time.sleep(...) after an exception in the attempt of index attempt
ErrorWait(p, attempt) ==
    IF p = "extract" THEN 2 ^ (attempt + 1) ELSE 3

\* the pipeline of page i sleeps w seconds and goes on to its next attempt
Again(i, w) ==
    /\ wattempt' = [wattempt EXCEPT ![i] = wattempt[i] + 1]
    /\ wwait' = [wwait EXCEPT ![i] = w]
    /\ UNCHANGED <<wpc, wres, store, wopen>>

\* the workers of the pool that are busy
Busy == {j \in Pages : wpc[j] \in {"running", "writing"}}

\* a worker takes page i: the input is acquired (the page of the PDF, the
\* image and the page record, the page and QA records); the correction
\* pipelines, which call no model, go on to save their output
Start(i) ==
    /\ wpc[i] = "queued"
    /\ Cardinality(Busy) < PoolSize
    /\ UNCHANGED <<rvars, mvars, pass, input, store0, wattempt, wtext, invoked, opc,
                   results, summary, recovered, order>>
    /\ IF ~input[i]
       THEN End(i, RaisedRes(i))
       ELSE IF pass \in {"gemini", "claude"}
       THEN Write(i, Res(i, "corrected", None, <<>>, FALSE))
       ELSE /\ wpc' = [wpc EXCEPT ![i] = "running"]
            /\ UNCHANGED <<wres, store, wopen, wwait>>

\* status of the extraction result once parsed is known
ExtractStatus_kept(parsed, status) == status

ExtractStatus(parsed, status) ==
    IF Truthy(parsed) THEN "success"
    ELSE IF status = "success" THEN "json_parse_failed"
    ELSE status

\* one attempt of call_gemini for page i and, when the call ends, the rest
\* of extract.process_page up to the dump of the page record
ExtractAttempt(i, o) ==
    /\ pass = "extract"
    /\ wpc[i] = "running"
    /\ UNCHANGED <<rvars, mvars, pass, input, store0, invoked, opc, results, summary,
                   recovered, order>>
    /\ LET k == wattempt[i]
           p == recovered["extract_json_from_response"][o.text]
           failed == Res(i, ExtractStatus(None, "failed"), None, <<>>, TRUE)
           got == Res(i, ExtractStatus(p.doc, "success"), p.doc, o.text, FALSE)
       IN CASE o.kind = "rate" ->
                 /\ UNCHANGED wtext
                 /\ IF k < 2
                    THEN Again(i, RateWait(pass, k))
                    ELSE End(i, RaisedRes(i)) /\ UNCHANGED wattempt
            [] o.kind = "error" ->
                 /\ UNCHANGED wtext
                 /\ IF k < 2
                    THEN Again(i, ErrorWait(pass, k))
                    ELSE Write(i, failed) /\ UNCHANGED wattempt
            [] OTHER ->
                 /\ wtext' = [wtext EXCEPT ![i] = [has |-> TRUE, text |-> o.text]]
                 /\ UNCHANGED wattempt
                 /\ IF p.raised
                    THEN End(i, RaisedRes(i))
                    ELSE Write(i, got)

\* the end of the attempt loop of retry_failed.process_page: "return result"
\* with the local result r, which raises when r was never assigned
RetryReturn(i, r) == End(i, IF r.kind = "unset" THEN RaisedRes(i) ELSE r)

\* "success" if parsed else "json_parse_failed"
RetryStatus(parsed) == IF Truthy(parsed) THEN "success" ELSE "json_parse_failed"

\* one attempt of retry_failed.process_page for page i, up to the dump of
\* the page record
RetryAttempt(i, o) ==
    /\ pass = "retry"
    /\ wpc[i] = "running"
    /\ UNCHANGED <<rvars, mvars, pass, input, store0, invoked, opc, results, summary,
                   recovered, order>>
    /\ LET k == wattempt[i]
           parsed == recovered["extract_json_robust"][o.text].doc
           got == Res(i, RetryStatus(parsed), parsed, o.text, FALSE)
       IN IF o.kind \in {"rate", "error"}
          THEN /\ UNCHANGED wtext
               /\ IF k < 2
                  THEN Again(i, IF o.kind = "rate" THEN RateWait(pass, k)
                                ELSE ErrorWait(pass, k))
                  ELSE /\ wattempt' = [wattempt EXCEPT ![i] = k + 1]
                       /\ RetryReturn(i, wres[i])
          ELSE /\ wtext' = [wtext EXCEPT ![i] = [has |-> TRUE, text |-> o.text]]
               /\ wattempt' = [wattempt EXCEPT ![i] = k + 1]
               /\ Write(i, got)

\* one attempt of verify_page for page i, up to the dump of the QA record
QaAttempt(i, o) ==
    /\ pass = "qa"
    /\ wpc[i] = "running"
    /\ UNCHANGED <<rvars, mvars, pass, input, store0, invoked, opc, results, summary,
                   recovered, order>>
    /\ LET k == wattempt[i]
           parsed_qa == recovered["verify_page"][o.text].doc
           failed == Res(i, "failed", None, <<>>, TRUE)
           got == Res(i, IF Truthy(parsed_qa) THEN "success" ELSE "parse_failed",
                      parsed_qa, o.text, FALSE)
       IN CASE o.kind = "rate" ->
                 /\ UNCHANGED wtext
                 /\ IF k < 2
                    THEN Again(i, RateWait(pass, k))
                    ELSE End(i, NoneRes(i)) /\ UNCHANGED wattempt
            [] o.kind = "error" ->
                 /\ UNCHANGED wtext
                 /\ IF k < 2
                    THEN Again(i, ErrorWait(pass, k))
                    ELSE Write(i, failed) /\ UNCHANGED wattempt
            [] OTHER ->
                 /\ wtext' = [wtext EXCEPT ![i] = [has |-> TRUE, text |-> o.text]]
                 /\ UNCHANGED wattempt
                 /\ Write(i, got)

\* the page record of page i is closed.  The pipeline returns its result,
\* but for the retry pipeline when the result holds no parsed Document and
\* an attempt is left: its loop goes on
Close(i) ==
    /\ wpc[i] = "writing"
    /\ wopen' = [wopen EXCEPT ![i] = 0]
    /\ wpc' = [wpc EXCEPT ![i] =
                  IF pass = "retry" /\ ~Truthy(wres[i].parsed) /\ wattempt[i] < 3
                  THEN "running" ELSE "done"]
    /\ UNCHANGED <<rvars, mvars, pass, input, store, store0, wattempt, wres, wtext,
                   invoked, opc, results, summary, recovered, order, wwait>>

\* every page qualifies
NeedsRetry_all(r) == TRUE

\* "status" is not success or there is no parsed Document: the test of the
\* scan of retry_failed.main, a missing record included
NeedsRetry(r) == ~r.exists \/ r.status # "success" \/ ~Truthy(r.parsed)

\* retry_failed.main up to the pool: the scan for failed pages and their
\* submission; with no failed page main returns
Scan ==
    /\ pass = "retry"
    /\ opc = "start"
    /\ UNCHANGED <<rvars, mvars, pass, input, store, store0, wattempt, wres, wtext,
                   results, summary, recovered, order, wopen, wwait>>
    /\ LET failed == {i \in Pages : NeedsRetry(store[i])}
       IN /\ invoked' = failed
          /\ wpc' = [i \in Pages |-> IF i \in failed THEN "queued" ELSE "idle"]
          /\ opc' = IF failed = {} THEN "done" ELSE "collect"

\* executor.submit for every page, in the four other orchestrators
Submit ==
    /\ pass \in Passes \ {"retry"}
    /\ opc = "start"
    /\ UNCHANGED <<rvars, mvars, pass, input, store, store0, wattempt, wres, wtext,
                   results, summary, recovered, order, wopen, wwait>>
    /\ invoked' = Pages
    /\ wpc' = [i \in Pages |-> "queued"]
    /\ opc' = "collect"

\* the result the orchestrator puts in place of an exception
ExceptionRes(i) ==
    [kind |-> "result", page |-> i, status |-> "exception", parsed |-> None,
     raw |-> <<>>, err |-> TRUE]

\* the passes whose loop over as_completed catches the exception of
\* future.result()
Catching == {"extract", "claude"}

\* one turn of the loop over as_completed: a finished future is taken;
\* future.result() gives the result or raises the exception of the pipeline
Collect(i) ==
    /\ opc = "collect"
    /\ wpc[i] = "done"
    /\ wpc' = [wpc EXCEPT ![i] = "collected"]
    /\ UNCHANGED <<rvars, mvars, pass, input, store, store0, wattempt, wres, wtext,
                   invoked, summary, recovered, wopen, wwait>>
    /\ IF wres[i].kind = "raised"
       THEN IF pass \in Catching
            THEN /\ results' = Append(results, ExceptionRes(i))
                 /\ order' = Append(order, i)
                 /\ UNCHANGED opc
            ELSE opc' = "aborted" /\ UNCHANGED <<results, order>>
       ELSE IF pass = "retry"
            THEN UNCHANGED <<results, order, opc>>
            ELSE /\ results' = Append(results, wres[i])
                 /\ order' = Append(order, i)
                 /\ UNCHANGED opc

RECURSIVE InsertByPage(_, _)
InsertByPage(r, sorted) ==
    IF sorted = <<>> THEN <<r>>
    ELSE IF r.page < Head(sorted).page THEN <<r>> \o sorted
    ELSE <<Head(sorted)>> \o InsertByPage(r, Tail(sorted))

\* the list as it was collected
SortByPage_unsorted(rs) == rs

RECURSIVE SortByPage(_)
\* results.sort(key=lambda x: x["page"])
SortByPage(rs) ==
    IF rs = <<>> THEN <<>>
    ELSE InsertByPage(rs[Len(rs)], SortByPage(SubSeq(rs, 1, Len(rs) - 1)))

\* [r["page"] for r in rs if r["status"] != "success"]
FailedPages(rs) ==
    LET f == SelectSeq(rs, LAMBDA r : r.status # "success")
    IN [n \in 1..Len(f) |-> f[n].page]

\* the aggregate of a run over the sorted results rs; each count is
\* sum(1 for r in rs if ...)
SummaryOf(rs) ==
    [written |-> TRUE,
     total |-> NumPages,
     success |-> Len(SelectSeq(rs, LAMBDA r : Truthy(r.parsed))),
     failed |-> Len(SelectSeq(rs, LAMBDA r : r.status # "success")),
     json_fail |-> Len(SelectSeq(rs, LAMBDA r : r.status = "json_parse_failed")),
     failed_pages |-> FailedPages(rs),
     results |-> rs]

\* after the pool: the sort of the results and the aggregate, in the four
\* orchestrators that collect results.  The key of the sort raises on a
\* result that is None.
Summarize ==
    /\ pass \in Passes \ {"retry"}
    /\ opc = "collect"
    /\ \A i \in Pages : wpc[i] = "collected"
    /\ UNCHANGED <<rvars, mvars, pass, input, store, store0, wpc, wattempt, wres,
                   wtext, invoked, recovered, order, wopen, wwait>>
    /\ IF \E n \in 1..Len(results) : results[n].kind = "none"
       THEN opc' = "aborted" /\ UNCHANGED <<results, summary>>
       ELSE /\ results' = SortByPage(results)
            /\ summary' = SummaryOf(SortByPage(results))
            /\ opc' = "done"

\* the record after the re-parse step of retry_failed.main
Reparsed(r) ==
    IF r.exists /\ ~Truthy(r.parsed) /\ r.raw # <<>>
       /\ Truthy(recovered["extract_json_robust"][r.raw].doc)
    THEN [r EXCEPT !.parsed = recovered["extract_json_robust"][r.raw].doc,
                   !.status = "success"]
    ELSE r

RECURSIVE RecordsFrom(_, _)
\* the records that exist, by page, from page i on
RecordsFrom(st, i) ==
    IF i > NumPages THEN <<>>
    ELSE (IF st[i].exists
          THEN <<Res(i, st[i].status, st[i].parsed, st[i].raw, st[i].err)>>
          ELSE <<>>) \o RecordsFrom(st, i + 1)

\* retry_failed.main after the pool: the re-parse of the records without a
\* parsed Document, then the combined results
RetryFinish ==
    /\ pass = "retry"
    /\ opc = "collect"
    /\ \A i \in invoked : wpc[i] = "collected"
    /\ UNCHANGED <<rvars, mvars, pass, input, store0, wpc, wattempt, wres, wtext,
                   invoked, recovered, order, wopen, wwait>>
    /\ store' = [i \in Pages |-> Reparsed(store[i])]
    /\ results' = RecordsFrom(store', 1)
    /\ summary' = SummaryOf(results')
    /\ opc' = "done"

RunNext ==
    \/ Scan
    \/ Submit
    \/ \E i \in Pages : Start(i)
    \/ \E i \in Pages, o \in Outcomes : ExtractAttempt(i, o)
    \/ \E i \in Pages, o \in Outcomes : RetryAttempt(i, o)
    \/ \E i \in Pages, o \in Outcomes : QaAttempt(i, o)
    \/ \E i \in Pages : Close(i)
    \/ \E i \in Pages : Collect(i)
    \/ Summarize
    \/ RetryFinish

SpecRun == RunInit /\ [][RunNext]_vars

\* the run with every step that can be taken eventually taken
FairSpecRun == SpecRun /\ WF_vars(RunNext)

\* ------------------------------------------------------ recovery claims

\* C1: for every text made of a serialized mapping d and trailing text that
\* is no JSON, extract_json_robust returns d, whatever the string values of
\* d hold (braces included).
C1_TrailingTextRecovered ==
    (rfn = "extract_json_robust" /\ rin.shape = "trailing" /\ rpc = "done")
        => (rout = "returned" /\ rret = rin.doc)

\* C2: for any Document d, extract_json_from_response and
\* extract_json_robust return a value equal to d on the serialization of d.
C2_RoundTrip ==
    (rfn \in {"extract_json_from_response", "extract_json_robust"}
     /\ rin.shape = "serialized" /\ rpc = "done")
        => (rout = "returned" /\ rret = rin.doc)

\* an opening fence with a closing fence after it
HasCompleteFence(text) ==
    /\ FindFrom(text, Fence, 1) > 0
    /\ FindFrom(text, Fence, FindFrom(text, Fence, 1) + 3) > 0

\* C3: on every input a recovery function returns (a Document or None), it
\* never raises; and text without a complete fenced block reaches the parse
\* stages unchanged.
C3_NeverRaises ==
    /\ rout # "raised"
    /\ (rpc = "direct" /\ ~HasCompleteFence(rin.text)) => rraw = rin.text

\* C13: for a text with a complete fenced block, tagged or not, with prose
\* around it and possibly further blocks after it, whose first block holds
\* the serialization of a Document d, every recovery function returns d.
C13_FirstFenceRecovered ==
    (rin.shape \in {"fenced", "fenced2"} /\ rin.doc \in PlainDicts /\ rpc = "done")
        => (rout = "returned" /\ rret = rin.doc)

\* C14: for a text made from the serialization of a Document d by putting a
\* comma, with or without whitespace after it, before closing braces and
\* brackets, the recovery functions return d.
C14_TrailingCommasRepaired ==
    (rfn \in {"extract_json_from_response", "extract_json_robust"}
     /\ rin.shape = "commas" /\ ~Contains(rin.text, <<Tick>>) /\ rpc = "done")
        => (rout = "returned" /\ rret = rin.doc)

\* the text is empty or holds whitespace only
Blank(text) == \A i \in 1..Len(text) : text[i] \in WS

\* the call is by one of the two recovery functions on a blank text
BlankCall ==
    /\ rfn \in {"extract_json_from_response", "extract_json_robust"}
    /\ Blank(rin.text)

\* C12 as stated: on an empty or whitespace-only string the recovery
\* functions report failure at once; the call is never at a parse stage
\* (direct parse, comma repair, brace extraction, truncation repair) and
\* never returns an empty Document.
C12_BlankFailsAtOnce ==
    BlankCall
        => /\ rpc \in {"call", "done"}
           /\ rpc = "done" => (rout = "returned" /\ rret = None)

\* C12 amended: on an empty or whitespace-only string the recovery functions
\* return None and never an empty Document; on the empty string at once,
\* before any parse stage; on a whitespace-only string after the direct
\* parse (and, in extract_json_robust, the comma repair) failed, with no
\* pass of the truncation loop, and in extract_json_from_response with no
\* comma repair either.
C12_BlankFails ==
    BlankCall
        => /\ rpc = "done" => (rout = "returned" /\ rret = None)
           /\ rin.text = <<>> => (rpc \in {"call", "done"} /\ rstage \in {"none", "empty"})
           /\ rpc # "trunc" /\ riter = 0
           /\ rfn = "extract_json_from_response" => rpc \notin {"comma", "brace"}

\* extract_json_robust has given up on a whitespace-only text after its
\* comma repair
C12_Witness ==
    /\ rfn = "extract_json_robust"
    /\ rin.text = <<" ", " ", " ">>
    /\ rpc = "done"
    /\ rret = None
    /\ rstage = "none"

\* --------------------------------------------------------- merge claims

\* the issue of the last pass of the loop, and the Document the loop works on
LastIssue == qa.issues[idx - 1]
WorkDoc == heap[pj]
AfterPass == mbranch = "issues" /\ idx > 1

\* both texts are non-empty strings and they differ
ProperDirective(issue) ==
    /\ issue.o.has /\ issue.o.doc.t = "str" /\ issue.o.doc.v # <<>>
    /\ issue.c.has /\ issue.c.doc.t = "str" /\ issue.c.doc.v # <<>>
    /\ issue.o.doc # issue.c.doc

\* a text is missing, null or empty, or the two are equal
Degenerate(issue) ==
    \/ ~issue.o.has \/ issue.o.doc \in {None, Str(<<>>)}
    \/ ~issue.c.has \/ issue.c.doc \in {None, Str(<<>>)}
    \/ issue.o.doc = issue.c.doc

RECURSIVE ReplaceAllLeaves(_, _, _)
\* d with every string leaf, at any depth and d itself when it is a string,
\* put through replace
ReplaceAllLeaves(d, o, c) ==
    IF d.t = "str" THEN Str(replace(d.v, o, c))
    ELSE IF d.t \in {"dict", "list"}
    THEN [d EXCEPT !.kids = [i \in 1..Len(d.kids) |->
                               [k |-> d.kids[i].k,
                                d |-> ReplaceAllLeaves(d.kids[i].d, o, c)]]]
    ELSE d

RECURSIVE OccursInLeaf(_, _)
\* some string leaf of d, at any depth, contains o
OccursInLeaf(d, o) ==
    IF d.t = "str" THEN Contains(d.v, o)
    ELSE \E i \in 1..Len(d.kids) : OccursInLeaf(d.kids[i].d, o)

RECURSIVE SameShape(_, _)
\* a and b have the same keys and lengths at every depth and the same
\* leaves that are no strings
SameShape(a, b) ==
    /\ a.t = b.t
    /\ a.t \in {"num", "true", "false", "null"} => a = b
    /\ Len(a.kids) = Len(b.kids)
    /\ \A i \in 1..Len(a.kids) :
         /\ a.kids[i].k = b.kids[i].k
         /\ SameShape(a.kids[i].d, b.kids[i].d)

\* the page has a base Document, and corrected_json of its payload is a
\* Document (null and the string "null" say that there is none)
CarriesReplacement ==
    /\ ocr # None
    /\ qa.exists
    /\ qa.cj.has
    /\ qa.cj.doc \notin {None, Str(<<"n", "u", "l", "l">>)}

\* C4: when the QA payload carries a complete replacement Document R, the
\* corrected Document saved for the page is R, whatever R is and whatever
\* issues come with it, in both appliers.
C4_ReplacementSaved ==
    (mpc = "done" /\ CarriesReplacement) => out.doc = qa.cj.doc

\* C5: after one fragment directive with non-empty original # corrected,
\* every string leaf that held original (a mapping value, a list element, or
\* the Document itself when it is one string) is the old leaf with every
\* occurrence replaced, and every other leaf is as it was.
C5_EveryLeafReplaced ==
    (AfterPass /\ ProperDirective(LastIssue))
        => WorkDoc = ReplaceAllLeaves(mprev.doc, LastIssue.o.doc.v, LastIssue.c.doc.v)

\* C6: in fragment mode the result has, at every depth, the keys, the list
\* lengths and the non-string leaves of the base; only the contents of
\* string leaves differ.
C6_StructurePreserved ==
    mbranch = "issues"
        => /\ SameShape(ocr, WorkDoc)
           /\ out.written => SameShape(ocr, out.doc)

\* a fragment-mode pass over a base with leaves at three depths has ended
\* with two change records and a result that differs from the base
C6_Witness ==
    /\ mpc = "done"
    /\ mbranch = "issues"
    /\ Len(mlog) = 2
    /\ Len(ocr.kids) = 2 /\ ocr.kids[2].d.t = "list"
    /\ out.doc # ocr

\* C7: whenever a merge reports no change record for a page, the corrected
\* Document it saved equals the base Document of the page, in both appliers
\* and modes.
C7_NoRecordNoChange ==
    (mpc = "done" /\ ocr # None /\ mlog = <<>>) => out.doc = ocr

\* C8: the merge never modifies the base Document it was given, and its
\* result is another object than the base: changing the result later
\* leaves the base alone.
C8_BaseUntouched ==
    /\ heap["ocr"] = ocr
    /\ mbranch \in {"issues", "corrected_json"} => pj # "ocr"

\* a pass has changed the working Document while the base kept its value
C8_Witness ==
    /\ AfterPass
    /\ WorkDoc # mprev.doc
    /\ mprev.doc = ocr
    /\ heap["ocr"] = ocr

\* C9: a fragment directive with a missing or empty text, or with equal
\* texts, is skipped: it changes no leaf and adds no change record, and the
\* loop goes on to the directives after it.
C9_DegenerateSkipped ==
    /\ (AfterPass /\ Degenerate(LastIssue))
           => (WorkDoc = mprev.doc /\ Len(mlog) = mprev.len)
    /\ (mpc = "done" /\ mbranch = "issues") => idx = Len(qa.issues) + 1

\* a skipped first directive, then a second one that was applied and recorded
C9_Witness ==
    /\ mpc = "done"
    /\ mbranch = "issues"
    /\ Len(qa.issues) = 2
    /\ Degenerate(qa.issues[1])
    /\ ProperDirective(qa.issues[2])
    /\ Len(mlog) = 1
    /\ out.doc # ocr

\* C10: a directive whose original occurs in no string leaf adds no change
\* record and leaves the Document as it was; a change record is added only
\* for a directive that changed a string leaf, and then exactly one.
C10_RecordIffChanged ==
    AfterPass
        => /\ (LastIssue.o.has /\ LastIssue.o.doc.t = "str"
               /\ ~OccursInLeaf(mprev.doc, LastIssue.o.doc.v))
                  => (WorkDoc = mprev.doc /\ Len(mlog) = mprev.len)
           /\ Len(mlog) # mprev.len
                  => /\ Len(mlog) = mprev.len + 1
                     /\ mlog[Len(mlog)].o = LastIssue.o.doc.v
                     /\ mlog[Len(mlog)].c = LastIssue.c.doc.v
                     /\ OccursInLeaf(mprev.doc, LastIssue.o.doc.v)
                     /\ WorkDoc # mprev.doc

\* a proper directive met a Document with string leaves, none of which
\* holds its original
C10_Witness ==
    /\ AfterPass
    /\ ProperDirective(LastIssue)
    /\ mprev.doc.t = "dict"
    /\ OccursInLeaf(mprev.doc, <<>>)
    /\ ~OccursInLeaf(mprev.doc, LastIssue.o.doc.v)
    /\ WorkDoc = mprev.doc

\* C11: for a page whose recovery failed (parsed_json is null), the corrected
\* output an applier saves does not hold an empty Document in place of the
\* failure marker (a replacement Document the QA payload supplies is no
\* stand-in for the marker).
C11_FailureNotEmptied ==
    (mpc = "done" /\ ocr = None /\ mbranch # "corrected_json")
        => out.doc # Dict(<<>>)

\* ----------------------------------------------------------- run claims

\* the recovery function of the pipeline of the pass
RecoverFnOf(p) ==
    CASE p = "extract" -> "extract_json_from_response"
      [] p = "retry" -> "extract_json_robust"
      [] OTHER -> "verify_page"

\* the pipeline of page i ended, the model call had returned a text, and
\* the recovery of the last text returned gave no Document
RecoveryFailedOn(i) ==
    /\ wpc[i] \in {"done", "collected"}
    /\ wtext[i].has
    /\ LET p == recovered[RecoverFnOf(pass)][wtext[i].text]
       IN p.raised \/ ~Truthy(p.doc)

\* C15: in the extraction, retry and QA pipelines, when the model call
\* returned a text and recovery failed on it, the page record holds that
\* text unchanged as its raw response, with a status that is not success.
C15_RawTextKept ==
    \A i \in Pages :
        (pass \in {"extract", "retry", "qa"} /\ RecoveryFailedOn(i))
            => /\ store[i].exists
               /\ store[i].raw = wtext[i].text
               /\ store[i].status # "success"

\* C16: in the extraction, retry and correction passes, when the pipeline
\* of a page raises, main is not stopped by it: main goes on to its end,
\* every submitted page is collected, and the page whose pipeline raised
\* has a failed result with the error among the results.
C16_ExceptionContained ==
    pass \in {"extract", "retry", "gemini", "claude"}
        => /\ opc # "aborted"
           /\ opc = "done"
                => \A i \in invoked :
                      /\ wpc[i] = "collected"
                      /\ wres[i].kind = "raised"
                           => \E n \in 1..Len(results) : results[n] = ExceptionRes(i)

\* main reached its end; it wrote the aggregate unless it had no page to
\* work on
Completed ==
    /\ opc = "done"
    /\ invoked # {} => summary.written

\* C17: every run of the extraction, QA and retry orchestrators eventually
\* reaches the end of main with its aggregate written, whatever the
\* attempts of the model calls meet (429 responses, exceptions, texts that
\* cannot be parsed) and whether or not the input of a page can be acquired.
C17_RunCompletes ==
    pass \in {"extract", "qa", "retry"} => <>Completed

\* before the pass, page i had no record, a record whose status is not
\* success, or a record without a parsed Document
Qualifies(i) ==
    \/ ~store0[i].exists
    \/ store0[i].status # "success"
    \/ ~Truthy(store0[i].parsed)

\* C18: the retry pass runs the pipeline for the pages that qualify and for
\* no other; the record of a page that does not qualify is never changed;
\* when no page qualifies no pipeline runs and nothing is written.
C18_RetryFrame ==
    pass = "retry"
        => /\ \A i \in Pages :
                ~Qualifies(i)
                    => (i \notin invoked /\ wpc[i] = "idle" /\ store[i] = store0[i])
           /\ opc # "start" => invoked = {i \in Pages : Qualifies(i)}
           /\ (\A i \in Pages : ~Qualifies(i))
                => (store = store0 /\ results = <<>> /\ ~summary.written)

\* a retry pass that ended with a page it left alone and a page whose
\* record it replaced
C18_Witness ==
    /\ pass = "retry"
    /\ opc = "done"
    /\ summary.written
    /\ \E i, j \in Pages :
          /\ ~Qualifies(i)
          /\ store[i] = store0[i]
          /\ Qualifies(j)
          /\ wpc[j] = "collected"
          /\ store[j] # store0[j]

\* the pages that failed: the pipeline raised, the model call failed, or
\* the recovery gave no Document
FailedSet ==
    {i \in Pages : \/ wres[i].kind = "raised"
                   \/ wres[i].err
                   \/ ~Truthy(wres[i].parsed)}

\* C19: at the end of an extraction run over NumPages pages of which the
\* set FailedSet failed, there is exactly one result for each page, and the
\* summary reports total = NumPages, success = NumPages - |FailedSet|,
\* failed = |FailedSet| and as failed pages exactly the pages of FailedSet.
C19_SummaryCounts ==
    (pass = "extract" /\ opc = "done")
        => /\ Len(results) = NumPages
           /\ \A i \in Pages : \E n \in 1..Len(results) : results[n].page = i
           /\ summary.written
           /\ summary.results = results
           /\ summary.total = NumPages
           /\ summary.success = NumPages - Cardinality(FailedSet)
           /\ summary.failed = Cardinality(FailedSet)
           /\ summary.success + summary.failed = NumPages
           /\ Len(summary.failed_pages) = Cardinality(FailedSet)
           /\ {summary.failed_pages[n] : n \in 1..Len(summary.failed_pages)} = FailedSet

\* an extraction run that ended with a page that succeeded, and a page
\* whose text could not be parsed or whose pipeline raised
C19_Witness ==
    /\ pass = "extract"
    /\ opc = "done"
    /\ \E i, j \in Pages :
          /\ i \notin FailedSet
          /\ j \in FailedSet
          /\ wtext[j].has
    /\ summary.failed = 1

\* a list of pages in ascending order
Ascending(ps) == \A m, n \in 1..Len(ps) : m < n => ps[m] < ps[n]

\* the result main holds for page i, whatever the moment it was collected
ResultOf(i) == IF wres[i].kind = "raised" THEN ExceptionRes(i) ELSE wres[i]

\* C20: in the extraction, QA and Gemini correction orchestrators, whatever
\* the order in which the pool completed the pages, the list of results of
\* the aggregate is in ascending page order and so is the list of failed
\* pages; the aggregate is determined by the outcomes of the pages alone.
C20_SortedByPage ==
    (pass \in {"extract", "qa", "gemini"} /\ summary.written)
        => /\ Ascending([n \in 1..Len(summary.results) |-> summary.results[n].page])
           /\ pass = "extract" => Ascending(summary.failed_pages)
           /\ results = summary.results
           /\ summary.results = [n \in Pages |-> ResultOf(n)]
           /\ summary = SummaryOf([n \in Pages |-> ResultOf(n)])

\* an extraction run whose pages were collected out of page order and all
\* failed
C20_Witness ==
    /\ pass = "extract"
    /\ summary.written
    /\ Len(order) = NumPages
    /\ ~Ascending(order)
    /\ Len(summary.failed_pages) = NumPages

\* the pipeline of page i acquired its input and ended without the model
\* call ever returning a text: every attempt met a 429 response or an
\* exception
AllAttemptsFailed(i) ==
    /\ pass \in {"extract", "retry", "qa"}
    /\ input[i]
    /\ wpc[i] \in {"done", "collected"}
    /\ ~wtext[i].has

\* C21: when every attempt of the model call of a page failed, by 429
\* responses and exceptions in any mix, the call ends after three attempts
\* with a result of status failed that carries the error, in call_gemini,
\* in the retry pipeline and in verify_page.
C21_TerminalError ==
    \A i \in Pages :
        AllAttemptsFailed(i)
            => /\ wattempt[i] <= 3
               /\ wres[i].kind = "result"
               /\ wres[i].status = "failed"
               /\ wres[i].err

\* ------------------------------------------------ merge claims, continued

\* C22: when an applier takes the replacement Document of the QA payload,
\* the change log of the page is one record, of kind full replacement,
\* whatever issues the payload holds besides.
C22_OneFullRecord ==
    (mpc = "done" /\ mbranch = "corrected_json") => mlog = <<FullRecord>>

\* ------------------------------------------------- run claims, continued


\* C23: at every moment of a run of any pass, the retry pass included, the
\* pipelines that are executing are at most MaxWorkers, the size fixed
\* before the run.
C23_PoolBound == Cardinality(Busy) <= MaxWorkers

\* C24: in every interleaving of the workers of the pool, a pipeline opens
\* for writing no page record but the one of its own page, no two pipelines
\* have the same record open, and the one reader of the records of the
\* pass, the re-parse step of the retry pass, runs when no record is open.
C24_ExclusiveKeys ==
    /\ \A i \in Pages : wopen[i] \in {0, i}
    /\ \A i, j \in Pages : (i # j /\ wopen[i] # 0) => wopen[i] # wopen[j]
    /\ (pass = "retry" /\ opc = "done") => \A i \in Pages : wopen[i] = 0

\* two pipelines have their page records open at the same moment
C24_Witness ==
    \E i, j \in Pages : i # j /\ wopen[i] = i /\ wopen[j] = j

\* C25: in call_gemini, in the retry pipeline and in verify_page, the sleep
\* before an attempt is at least twice the sleep before the attempt that
\* came before it, after a 429 response and after an exception alike.
C25_BackoffDoubles ==
    [][\A i \in Pages :
          (wpc[i] = "running" /\ wattempt'[i] = wattempt[i] + 1 /\ wwait[i] # 0
               /\ wwait'[i] # 0)
              => wwait'[i] >= 2 * wwait[i]]_vars

RECURSIVE LeavesHolding(_, _)
RECURSIVE HoldingFrom(_, _, _)
\* the string leaves of d, at any depth, that contain o
LeavesHolding(d, o) ==
    IF d.t = "str" THEN (IF Contains(d.v, o) THEN 1 ELSE 0)
    ELSE HoldingFrom(d.kids, 1, o)

\* the same over the entries of a container from entry i on
HoldingFrom(kids, i, o) ==
    IF i > Len(kids) THEN 0
    ELSE LeavesHolding(kids[i].d, o) + HoldingFrom(kids, i + 1, o)

RECURSIVE LeavesChanged(_, _)
RECURSIVE ChangedFrom(_, _, _)
\* the string leaves of a, at any depth, that are not the same in b, a
\* Document of the same shape
LeavesChanged(a, b) ==
    IF a.t = "str" THEN (IF a # b THEN 1 ELSE 0)
    ELSE ChangedFrom(a.kids, b.kids, 1)

\* the same over the entries of two containers from entry i on
ChangedFrom(ka, kb, i) ==
    IF i > Len(ka) THEN 0
    ELSE LeavesChanged(ka[i].d, kb[i].d) + ChangedFrom(ka, kb, i + 1)

\* C27: the count in the record of a directive is the number of string
\* leaves, at any depth of the Document, that held its original text and
\* were changed by it, a leaf counted once however many times it held the
\* text; in both appliers.
C27_CountIsLeaves ==
    (AfterPass /\ Len(mlog) = mprev.len + 1)
        => /\ SameShape(mprev.doc, WorkDoc)
           /\ mlog[Len(mlog)].n = LeavesHolding(mprev.doc, LastIssue.o.doc.v)
           /\ mlog[Len(mlog)].n = LeavesChanged(mprev.doc, WorkDoc)

\* a directive whose text occurred three times in the one leaf of the
\* Document has a record with count 1
C27_Witness ==
    /\ AfterPass
    /\ Len(mlog) = mprev.len + 1
    /\ mprev.doc = Dict(<<Pair(<<"t">>, Str(<<"a", "a", "a">>))>>)
    /\ LastIssue.o.doc = Str(A1)
    /\ mlog[Len(mlog)].n = 1

\* ------------------------------------------- recovery claims, continued

\* the steps a call can still take: the stages before it, and in the
\* truncation loop the passes left
StepsLeft ==
    CASE rpc = "call" -> TruncationPasses + 4
      [] rpc = "direct" -> TruncationPasses + 3
      [] rpc = "comma" -> TruncationPasses + 2
      [] rpc = "brace" -> TruncationPasses + 1
      [] rpc = "trunc" -> TruncationPasses - riter
      [] OTHER -> 0

\* a pass of the truncation loop whose parse attempt fails
FailedPass ==
    /\ rpc = "trunc"
    /\ riter' = riter + 1
    /\ ~json_loads(rattempt).ok

\* C26: every call of a recovery function ends: each step it takes leaves
\* fewer steps to take, and a call that has not ended has a step left (the
\* steps have no other condition than the stage and the passes left).
\* The truncation loop of extract_json_robust makes at most
\* TruncationPasses parse attempts; a failed attempt either appends the
\* closing sequence "]}" to the text or ends the loop; when the passes are
\* used up without a successful parse the call returns None.
C26_TruncationBounded ==
    /\ [][StepsLeft' < StepsLeft /\ StepsLeft' >= 0]_vars
    /\ [](rpc # "done" => StepsLeft > 0)
    /\ [](riter <= TruncationPasses)
    /\ [][FailedPass
            => \/ rpc' = "done" /\ rret' = None /\ rout' = "returned"
               \/ /\ rpc' = "trunc"
                  /\ rattempt' # rattempt
                  /\ endswith(rattempt', <<"]", "}">>)]_vars
    /\ []((rpc = "done" /\ riter = TruncationPasses /\ rstage # "trunc")
            => (rout = "returned" /\ rret = None))

\* a call that used up the passes of the truncation loop
C26_Witness ==
    /\ rfn = "extract_json_robust"
    /\ rpc = "done"
    /\ riter = TruncationPasses
    /\ rout = "returned"
    /\ rret = None

\* ------------------------------------------ run claims, the page records

\* C28: every page record the extraction pipeline, the retry pipeline or
\* the re-parse step of the retry pass has written has status success if
\* and only if it holds a parsed Document that is not empty: no record has
\* status success without a Document, none has a Document that is not
\* empty with another status.
C28_SuccessIffParsed ==
    pass \in {"extract", "retry"}
        => \A i \in Pages :
              store[i].exists
                  => (store[i].status = "success"
                        <=> store[i].parsed \notin {None, Dict(<<>>), List(<<>>),
                                                    Str(<<>>)})

\* ------------------------------------- recovery claims, the comma repair

RECURSIVE StringLeaves(_)
RECURSIVE StringLeavesFrom(_, _)
\* the values of the string leaves of d, at any depth, in document order
StringLeaves(d) ==
    IF d.t = "str" THEN <<d.v>>
    ELSE StringLeavesFrom(d.kids, 1)

\* the same over the entries of a container from entry i on
StringLeavesFrom(kids, i) ==
    IF i > Len(kids) THEN <<>>
    ELSE StringLeaves(kids[i].d) \o StringLeavesFrom(kids, i + 1)

\* C29: when a recovery call on the serialization of a Document d with
\* trailing commas returns from the trailing-comma repair stage, the string
\* leaves of the returned Document are the string literals of the input,
\* those of d, one for one: the repair took no comma out of a literal.
C29_LiteralsKept ==
    (rin.shape = "commas" /\ rpc = "done" /\ rstage = "comma")
        => (rout = "returned" /\ StringLeaves(rret) = StringLeaves(rin.doc))

\* ------------------------------------- merge claims, the two appliers

\* C30: on every base Document and every list of fragment directives the
\* issue loop of the Claude applier and apply_text_corrections of the
\* Gemini applier give the same corrected Document and the same sequence of
\* records (original, corrected, count); and it is what the applier of the
\* pass saved and logged when it went through its fragment branch.
C30_AppliersAgree ==
    /\ ClaudeIssueLoop(ocr, <<>>, qa.issues, 1)
         = apply_text_corrections(ocr, <<>>, qa.issues, 1)
    /\ (mpc = "done" /\ mbranch = "issues")
          => /\ out.doc = ClaudeIssueLoop(ocr, <<>>, qa.issues, 1).doc
             /\ out.doc = apply_text_corrections(ocr, <<>>, qa.issues, 1).doc
             /\ mlog = ClaudeIssueLoop(ocr, <<>>, qa.issues, 1).log
             /\ mlog = apply_text_corrections(ocr, <<>>, qa.issues, 1).log

\* a fragment pass ended with two directives applied and recorded, to a
\* Document with leaves below the top level
C30_Witness ==
    /\ mpc = "done"
    /\ mbranch = "issues"
    /\ Len(mlog) = 2
    /\ \E i \in 1..2 : mlog[i].n > 1
    /\ out.doc # ocr

====
